---------------------------- MODULE Spec2Model ----------------------------
(***************************************************************************)
(* A model of the chess rules engine of pychess.py: the Board class (piece *)
(* placement, en-passant pair, castle_x set, history), its pseudo-legal    *)
(* move generator _positional_moves, the attack oracle is_attacked, the    *)
(* legal move filter legal_moves, the move applier make_move, the reader   *)
(* of notation interpret, the game loop interactive_game and the generator *)
(* deeplook.                                                               *)
(*                                                                         *)
(* A square "e4" is the integer Sq(f, r) with f = Delta.f2i["e"] and       *)
(* r = Delta.r2i["4"]; a piece "wp" is the pair <<"w", "p">>, and the      *)
(* string "empty" that Board.__getitem__ returns for an absent key is the  *)
(* pair of its first two characters, <<"e", "m">>, which is what the code  *)
(* reads when it indexes self[spot][0] and self[spot][1].                  *)
(***************************************************************************)
EXTENDS Integers, Sequences, FiniteSets, TLC

VARIABLES
  board,   \* the game loop's current Board; under SpecPerft the board of the followed turn of deeplook's outermost loop
  moves,   \* the game loop's list(board.legal_moves()), as a set
  stack,   \* the suspended frames of the generator deeplook, outermost first
  count,   \* how many boards deeplook has yielded
  depth,   \* the depth deeplook was called with (0: not called)
  over,    \* what the game loop printed when it stopped ("": it has not stopped)
  heap,    \* the mutable objects (dict, set, list) of the Boards a caller holds, by address
  held,    \* the Boards a caller holds, each the addresses of its piecemap, castle_x and history
  seen     \* for each held Board, its value when the caller received it

vars == <<board, moves, stack, count, depth, over, heap, held, seen>>

-----------------------------------------------------------------------------
(* Squares and offsets (class Delta)                                       *)

Sq(f, r) == f * 8 + r
File(s) == s \div 8
Rank(s) == s % 8
Squares == 0 .. 63

\* the value standing for "IndexError raised by from_" and for a None square
NoSquare == 0 - 1

Delta(df, dr) == <<df, dr>>

\* Delta.__mul__
Mul(d, mult) == <<d[1] * mult, d[2] * mult>>

\* line 51 testing the index of the square in place of its file and rank
from_flat(d, spot) ==
  LET f == File(spot) + d[1]
      r == Rank(spot) + d[2]
  IN IF 0 <= Sq(f, r) /\ Sq(f, r) < 64 THEN Sq(f, r) ELSE NoSquare

\* Delta.from_: the translated square, or NoSquare for the IndexError
from_(d, spot) ==
  LET f == File(spot) + d[1]
      r == Rank(spot) + d[2]
  IN IF 0 <= f /\ f < 8 /\ 0 <= r /\ r < 8 THEN Sq(f, r) ELSE NoSquare

\* the offsets the move generator and make_move ask from_ for: at most seven
\* squares along a file, a rank or a diagonal
Offsets == (0 - 7) .. 7

\* Delta.from_ tabulated for every square and every such offset, so that the
\* generator reads a translated square instead of computing it anew
from_table ==
  [spot \in Squares |-> [df \in Offsets |-> [dr \in Offsets |->
     from_(Delta(df, dr), spot)]]]

\* Delta.from_ as the generator and make_move call it
from_at(d, spot) == from_table[spot][d[1]][d[2]]

a1 == Sq(0, 0)
e1 == Sq(4, 0)
h1 == Sq(7, 0)
a8 == Sq(0, 7)
e8 == Sq(4, 7)
h8 == Sq(7, 7)

\* Board.CASTLE_SPOTS
CASTLE_SPOTS == {a1, e1, h1, a8, e8, h8}

-----------------------------------------------------------------------------
(* Pieces and the board                                                    *)

Empty == <<"e", "m">>
None == <<>>

\* ChessPiece.backfile
backfile == <<"r", "n", "b", "q", "k", "b", "n", "r">>

\* Board.default_board
default_board ==
  [piecemap |-> [s \in Squares |->
                   CASE Rank(s) = 0 -> <<"w", backfile[File(s) + 1]>>
                     [] Rank(s) = 1 -> <<"w", "p">>
                     [] Rank(s) = 6 -> <<"b", "p">>
                     [] Rank(s) = 7 -> <<"b", backfile[File(s) + 1]>>
                     [] OTHER -> Empty],
   enpassant |-> None,
   castle_x |-> {},
   history |-> <<>>]

\* Board._positions: the squares holding a piece of the colour
positions(b, color) == {s \in Squares : b.piecemap[s][1] = color}

\* Board.who
who(b) == IF Len(b.history) % 2 = 0 THEN "w" ELSE "b"

\* Board.other
other(w) == IF w = "w" THEN "b" ELSE "w"

d_straight == <<Delta(0, 1), Delta(1, 0), Delta(0, -1), Delta(-1, 0)>>
d_diag == <<Delta(1, 1), Delta(1, -1), Delta(-1, -1), Delta(-1, 1)>>
d_knight == <<Delta(2, 1), Delta(2, -1), Delta(1, 2), Delta(-1, 2),
              Delta(-2, -1), Delta(-2, 1), Delta(-1, -2), Delta(1, -2)>>

d_both == d_straight \o d_diag

\* the dictionary of lines 205-211
dirs(kind) ==
  CASE kind = "r" -> d_straight
    [] kind = "b" -> d_diag
    [] kind = "q" -> d_both
    [] kind = "k" -> d_both
    [] kind = "n" -> d_knight

-----------------------------------------------------------------------------
(* The pseudo-legal move generator (Board._positional_moves)               *)

\* Each piece's moves are generated as the set of squares spot2 of its yields
\* (spot, spot2): SpotMoves pairs them with spot.

\* the pawn branch without the two-square push of lines 193-199
PawnTargetsOneStep(b, spot, piece, plyother) ==
  LET dr == IF piece[1] = "b" THEN 0 - 1 ELSE 1
      one == from_at(Delta(0, dr), spot)
      eptarget == IF b.enpassant = None THEN NoSquare ELSE b.enpassant[1]
      push == IF one # NoSquare /\ b.piecemap[one] = Empty THEN {one} ELSE {}
      diag == {spot2 \in {from_at(Delta(0 - 1, dr), spot), from_at(Delta(1, dr), spot)} :
                 spot2 # NoSquare /\ (b.piecemap[spot2][1] = plyother \/ spot2 = eptarget)}
  IN push \cup diag

\* the pawn branch, lines 183-203: the pushes and the diagonal captures
PawnTargets(b, spot, piece, plyother) ==
  LET dr == IF piece[1] = "b" THEN 0 - 1 ELSE 1
      one == from_at(Delta(0, dr), spot)
      two == from_at(Delta(0, dr * 2), spot)
      home == IF piece[1] = "b" THEN 6 ELSE 1
      eptarget == IF b.enpassant = None THEN NoSquare ELSE b.enpassant[1]
      push == IF one # NoSquare /\ b.piecemap[one] = Empty
              THEN {one} \cup
                   (IF Rank(spot) = home /\ two # NoSquare /\ b.piecemap[two] = Empty
                    THEN {two} ELSE {})
              ELSE {}
      diag == {spot2 \in {from_at(Delta(0 - 1, dr), spot), from_at(Delta(1, dr), spot)} :
                 spot2 # NoSquare /\ (b.piecemap[spot2][1] = plyother \/ spot2 = eptarget)}
  IN push \cup diag

\* One direction dd of the loop of lines 213-228, from step i on: the ray
\* stops at the board's edge (IndexError), after a capture, before an own
\* piece. (The RuntimeError of line 228 needs a piece that is neither plynow's
\* nor plyother's: there is none, a piece is "w" or "b".)
RECURSIVE Ray(_, _, _, _, _, _)
Ray(b, spot, dd, i, distance, plyother) ==
  IF i >= distance THEN {}
  ELSE LET spot2 == from_at(Mul(dd, i), spot) IN
       IF spot2 = NoSquare THEN {}
       ELSE IF b.piecemap[spot2] = Empty
            THEN {spot2} \cup Ray(b, spot, dd, i + 1, distance, plyother)
       ELSE IF b.piecemap[spot2][1] = plyother THEN {spot2}
       ELSE {}

\* lines 205-228: the moves of a knight, bishop, rook, queen or king
PieceTargets(b, spot, piece, plyother) ==
  LET ds == dirs(piece[2])
      distance == IF piece[2] \in {"k", "n"} THEN 2 ELSE 8
  IN UNION {Ray(b, spot, ds[j], 1, distance, plyother) : j \in 1 .. Len(ds)}

RECURSIVE is_attacked(_, _, _)

\* lines 242 and 255 left out: the rook's square is not looked up in castle_x
CastleSideAnyRook(b, spot, plyother, d1, n) ==
  LET lineup == [i \in 1 .. n |-> from_at(Mul(d1, i - 1), spot)] IN
  IF /\ b.piecemap[lineup[n]][2] = "r"
     /\ \A i \in 2 .. n - 1 : b.piecemap[lineup[i]] = Empty
     /\ ~ \E i \in 1 .. 3 : is_attacked(b, lineup[i], plyother)
  THEN {lineup[3]}
  ELSE {}

\* lines 238-248 (king side, n = 4) and 251-261 (queen side, n = 5): lineup is
\* the n squares from the king toward the rook
CastleSide(b, spot, plyother, d1, n) ==
  LET lineup == [i \in 1 .. n |-> from_at(Mul(d1, i - 1), spot)] IN
  IF /\ b.piecemap[lineup[n]][2] = "r"
     /\ lineup[n] \notin b.castle_x
     /\ \A i \in 2 .. n - 1 : b.piecemap[lineup[i]] = Empty
     /\ ~ \E i \in 1 .. 3 : is_attacked(b, lineup[i], plyother)
  THEN {lineup[3]}
  ELSE {}

\* line 235 left out for black: its castling branch is entered whatever
\* square is asked about
CastleGuardBlack(b, spot, piece, plynow, attacking) ==
  LET k_spot == IF plynow = "w" THEN e1 ELSE e8 IN
  /\ piece[2] = "k"
  /\ spot = k_spot
  /\ spot \notin b.castle_x
  /\ (plynow = "b" \/ attacking = NoSquare \/ Rank(attacking) = Rank(k_spot))

\* lines 231-236: the castling branch is entered for the king on its home
\* square that has not moved, when all moves are asked for or the square
\* asked about is on the king's home rank
CastleGuard(b, spot, piece, plynow, attacking) ==
  LET k_spot == IF plynow = "w" THEN e1 ELSE e8 IN
  /\ piece[2] = "k"
  /\ spot = k_spot
  /\ spot \notin b.castle_x
  /\ (attacking = NoSquare \/ Rank(attacking) = Rank(k_spot))

\* lines 230-261: the castling moves of the king on spot
CastleTargets(b, spot, piece, plynow, plyother, attacking) ==
  IF CastleGuard(b, spot, piece, plynow, attacking)
  THEN CastleSide(b, spot, plyother, Delta(1, 0), 4)
       \cup CastleSide(b, spot, plyother, Delta(0 - 1, 0), 5)
  ELSE {}

\* the body of the loop of line 182 for the piece on spot
SpotTargets(b, spot, plynow, plyother, attacking) ==
  LET piece == b.piecemap[spot] IN
  IF piece[2] = "p"
  THEN PawnTargets(b, spot, piece, plyother)
  ELSE PieceTargets(b, spot, piece, plyother)
       \cup CastleTargets(b, spot, piece, plynow, plyother, attacking)

SpotMoves(b, spot, plynow, plyother, attacking) ==
  {<<spot, spot2>> : spot2 \in SpotTargets(b, spot, plynow, plyother, attacking)}

\* Board._positional_moves(who, attacking); w = "" stands for who=None and
\* attacking = NoSquare for attacking=None
positional_moves(b, w, attacking) ==
  LET plynow == IF w # "" THEN w ELSE who(b)
      plyother == other(plynow)
  IN UNION {SpotMoves(b, spot, plynow, plyother, attacking) : spot \in positions(b, plynow)}

\* Board.is_attacked: some move (s, spot2) that _positional_moves(who,
\* attacking=spot) yields has spot2 = spot
is_attacked(b, spot, w) ==
  \E s \in positions(b, w) : spot \in SpotTargets(b, s, w, other(w), spot)

-----------------------------------------------------------------------------
(* The move applier (Board.make_move) and the legal move filter            *)

\* what make_move returns when the code raises instead of returning a board
Raised(kind) == [raised |-> kind]
Raises(x) == DOMAIN x = {"raised"}

\* the rook copied to the square the king crossed and left on its corner
CastleRookCopied(pm, piece, from, to, plynow) ==
  LET k_spot == IF plynow = "w" THEN e1 ELSE e8
      rk == Rank(to)
      g == IF piece[2] = "k" /\ from = k_spot /\ File(to) = 6
           THEN [pm EXCEPT ![Sq(5, rk)] = pm[Sq(7, rk)]]
           ELSE pm
  IN IF piece[2] = "k" /\ from = k_spot /\ File(to) = 2
     THEN [g EXCEPT ![Sq(3, rk)] = g[Sq(0, rk)]]
     ELSE g

\* lines 273-280: the rook's relocation when the king leaves its home square
\* for the g- or the c-file
CastleRook(pm, piece, from, to, plynow) ==
  LET k_spot == IF plynow = "w" THEN e1 ELSE e8
      rk == Rank(to)
      g == IF piece[2] = "k" /\ from = k_spot /\ File(to) = 6
           THEN [pm EXCEPT ![Sq(5, rk)] = pm[Sq(7, rk)], ![Sq(7, rk)] = Empty]
           ELSE pm
  IN IF piece[2] = "k" /\ from = k_spot /\ File(to) = 2
     THEN [g EXCEPT ![Sq(3, rk)] = g[Sq(0, rk)], ![Sq(0, rk)] = Empty]
     ELSE g

\* lines 281-282 left out: the pawn taken en passant stays
EnPassantCaptureNone(pm, piece, to, enpassant) == pm

\* lines 281-282: the pawn taken en passant leaves the board
EnPassantCapture(pm, piece, to, enpassant) ==
  IF piece[2] = "p" /\ enpassant # None /\ to = enpassant[1]
  THEN [pm EXCEPT ![enpassant[2]] = Empty]
  ELSE pm

\* the else branch of line 295 left out: the pair _dupe copied stays
NewEnPassantKept(old, piece, from, to, plynow) ==
  LET pawn_dr == IF plynow = "b" THEN 0 - 1 ELSE 1 IN
  IF /\ piece[2] = "p"
     /\ Rank(from) = (IF plynow = "w" THEN 1 ELSE 6)
     /\ to = from_at(Delta(0, pawn_dr * 2), from)
  THEN <<from_at(Delta(0, pawn_dr), from), to>>
  ELSE old

\* lines 289-296: the en-passant pair the new board records; old is the pair
\* that _dupe copied into it
NewEnPassant(old, piece, from, to, plynow) ==
  LET pawn_dr == IF plynow = "b" THEN 0 - 1 ELSE 1 IN
  IF /\ piece[2] = "p"
     /\ Rank(from) = (IF plynow = "w" THEN 1 ELSE 6)
     /\ to = from_at(Delta(0, pawn_dr * 2), from)
  THEN <<from_at(Delta(0, pawn_dr), from), to>>
  ELSE None

\* castle_x not copied by _dupe: the new board records only this move's square
NewCastleXAlone(castle_x, from) ==
  IF from \in CASTLE_SPOTS THEN {from} ELSE castle_x

\* lines 297-299: the castling history the new board records
NewCastleX(castle_x, from) ==
  IF from \in CASTLE_SPOTS /\ from \notin castle_x
  THEN castle_x \cup {from}
  ELSE castle_x

\* line 301 left out: the list _dupe copied stays
NewHistoryKept(history, fromto) == history

\* line 301: the move is recorded
NewHistory(history, fromto) == Append(history, fromto)

\* Board.make_move
make_move(b, fromto, ignore_promote) ==
  LET from == fromto[1]
      to == fromto[2]
      promote == SubSeq(fromto, 3, Len(fromto))
      plynow == who(b)
      piece == b.piecemap[from]
      k_spot == IF plynow = "w" THEN e1 ELSE e8
      promotes == ~ignore_promote /\ piece[2] = "p" /\ Rank(to) \in {0, 7}
      placed == IF promotes THEN <<piece[1], promote[1]>> ELSE piece
      pm1 == CastleRook(b.piecemap, piece, from, to, plynow)
      pm2 == EnPassantCapture(pm1, piece, to, b.enpassant)
  IN IF piece = Empty THEN Raised("KeyError")
     ELSE IF /\ piece[2] = "k" /\ from = k_spot
             /\ \/ File(to) = 6 /\ b.piecemap[Sq(7, Rank(to))] = Empty
                \/ File(to) = 2 /\ b.piecemap[Sq(0, Rank(to))] = Empty
          THEN Raised("KeyError")
     ELSE IF promotes /\ promote = <<>> THEN Raised("IndexError")
     ELSE [piecemap |-> [pm2 EXCEPT ![to] = placed, ![from] = Empty],
           enpassant |-> NewEnPassant(b.enpassant, placed, from, to, plynow),
           castle_x |-> NewCastleX(b.castle_x, from),
           history |-> NewHistory(b.history, fromto)]

\* Board.is_positional_check
is_positional_check(b, w) ==
  LET king_spot == CHOOSE s \in positions(b, w) : b.piecemap[s][2] = "k"
  IN is_attacked(b, king_spot, other(w))

\* the loop of line 120 over "q" alone
ExpandQueen(b, candidate) ==
  IF b.piecemap[candidate[1]][2] = "p" /\ Rank(candidate[2]) \in {0, 7}
  THEN {candidate \o <<"q">>}
  ELSE {candidate}

\* lines 118-123: a surviving candidate, expanded when a pawn reaches rank 1 or 8
Expand(b, candidate) ==
  IF b.piecemap[candidate[1]][2] = "p" /\ Rank(candidate[2]) \in {0, 7}
  THEN {candidate \o <<promote>> : promote \in {"q", "b", "n", "r"}}
  ELSE {candidate}

\* line 117 left out: every candidate is kept
SurvivesAlways(b, candidate) == TRUE

\* line 117 testing self in place of chboard
SurvivesNow(b, candidate) ==
  ~ is_positional_check(b, who(b))

\* lines 116-117: the candidate does not leave the mover in check
Survives(b, candidate) ==
  LET chboard == make_move(b, candidate, TRUE)
  IN ~ is_positional_check(chboard, who(b))

\* Board.legal_moves
legal_moves(b) ==
  UNION {IF Survives(b, candidate) THEN Expand(b, candidate) ELSE {} :
           candidate \in positional_moves(b, "", NoSquare)}

-----------------------------------------------------------------------------
(* The game loop (interactive_game, play_pgn_game)                         *)

\* how many plies the loop is followed past the end of a replayed game
MaxFree == 1

\* The games the exploration follows from the standard initial position. A
\* move is <<from, to>> or <<from, to, promotion>>, a square the number
\* Sq(file, rank); every move of a game is played only if legal_moves yields it.
\* castling on both wings, then a check:
\*   1. e4 e5 2. Nf3 Nc6 3. Bc4 Bc5 4. O-O d6 5. d4 Bg4 6. dxe5 Qd7 7. exd6 O-O-O 8. Nc3 Bxf2+
Game1 ==
  <<<<33, 35>>, <<38, 36>>, <<48, 42>>, <<15, 21>>, <<40, 19>>, <<47, 20>>, <<32, 48>>, <<30, 29>>, <<25, 27>>, <<23, 51>>, <<27, 36>>, <<31, 30>>, <<36, 29>>, <<39, 23>>, <<8, 18>>, <<20, 41>>>>

\* en passant by both sides, a promotion by capture, a check:
\*   1. e4 a6 2. e5 d5 3. exd6 h5 4. dxc7 h4 5. g4 hxg3 6. cxb8=Q Qxd2+
Game2 ==
  <<<<33, 35>>, <<6, 5>>, <<35, 36>>, <<30, 28>>, <<36, 29>>, <<62, 60>>, <<29, 22>>, <<60, 59>>, <<49, 51>>, <<59, 50>>, <<22, 15, "q">>, <<31, 25>>>>

\* rooks and a king that leave home and come back:
\*   1. h4 a5 2. Rh3 a4 3. Rh1 a3 4. Nf3 Ra6 5. e3 Ra8 6. Be2 Nf6 7. Kf1 e6 8. Ke1 Be7 9. d4 Bb4+
Game3 ==
  <<<<57, 59>>, <<6, 4>>, <<56, 58>>, <<4, 3>>, <<58, 56>>, <<3, 2>>, <<48, 42>>, <<7, 5>>, <<33, 34>>, <<5, 7>>, <<40, 33>>, <<55, 45>>, <<32, 40>>, <<38, 37>>, <<40, 32>>, <<47, 38>>, <<25, 27>>, <<38, 11>>>>

\* a black pawn on e2 beside the white king's castling path:
\*   1. e4 d5 2. exd5 e5 3. Nf3 e4 4. Bc4 e3 5. a3 e2 6. O-O exf1=Q+
Game4 ==
  <<<<33, 35>>, <<30, 28>>, <<35, 28>>, <<38, 36>>, <<48, 42>>, <<36, 35>>, <<40, 19>>, <<35, 34>>, <<1, 2>>, <<34, 33>>, <<32, 48>>, <<33, 40, "q">>>>

\* fool's mate:
\*   1. f3 e5 2. g4 Qh4#
Game5 ==
  <<<<41, 42>>, <<38, 36>>, <<49, 51>>, <<31, 59>>>>

\* a check, a pinned knight:
\*   1. e4 e5 2. Nf3 d6 3. Bb5+ Nc6 4. d4 a6 5. Bxc6+
Game6 ==
  <<<<33, 35>>, <<38, 36>>, <<48, 42>>, <<30, 29>>, <<40, 12>>, <<15, 21>>, <<25, 27>>, <<6, 5>>, <<12, 21>>>>

\* a black pawn promoting on c1:
\*   1. a3 b5 2. a4 bxa4 3. b3 axb3 4. Nc3 b2 5. Rb1 bxc1=N
Game7 ==
  <<<<1, 2>>, <<14, 12>>, <<2, 3>>, <<12, 3>>, <<9, 10>>, <<3, 10>>, <<8, 18>>, <<10, 9>>, <<0, 8>>, <<9, 16, "n">>>>

\* castling on the other wings, an en-passant capture left unplayed:
\*   1. d4 Nf6 2. Nc3 g6 3. Bf4 Bg7 4. Qd2 O-O 5. O-O-O c5 6. d5 e5 7. h3 Qa5 8. g4 b5 9. g5 Qxa2 10. gxf6 Qa1+
Game8 ==
  <<<<25, 27>>, <<55, 45>>, <<8, 18>>, <<54, 53>>, <<16, 43>>, <<47, 54>>, <<24, 25>>, <<39, 55>>, <<32, 16>>, <<22, 20>>, <<27, 28>>, <<38, 36>>, <<57, 58>>, <<31, 4>>, <<49, 51>>, <<14, 12>>, <<51, 52>>, <<4, 1>>, <<52, 45>>, <<1, 0>>>>

\* Loyd's stalemate:
\*   1. e3 a5 2. Qh5 Ra6 3. Qxa5 h5 4. h4 Rah6 5. Qxc7 f6 6. Qxd7+ Kf7 7. Qxb7 Qd3 8. Qxb8 Qh7 9. Qxc8 Kg6 10. Qe6
Game9 ==
  <<<<33, 34>>, <<6, 4>>, <<24, 60>>, <<7, 5>>, <<60, 4>>, <<62, 60>>, <<57, 59>>, <<5, 61>>, <<4, 22>>, <<46, 45>>, <<22, 30>>, <<39, 46>>, <<30, 14>>, <<31, 26>>, <<14, 15>>, <<26, 62>>, <<15, 23>>, <<46, 53>>, <<23, 37>>>>

\* a game played down to the two kings:
\*   f2f4 f7f5 e1f2 b7b6 h2h3 a7a6 g1f3 b8c6 a2a4 c6b4 d2d3 b4c2 d1c2 h7h5 c2c7 d8c7 a4a5 c7c1 a5b6 c1f1 h1f1 d7d5 a1a6 a8a6 b2b4 a6b6 b4b5 b6b5 e2e4 d5e4 d3e4 f5e4 g2g4 h5g4 h3g4 e4f3 f2f3 b5b1 f1b1 c8g4 f3g4 e7e6 f4f5 e6f5 g4f5 g7g5 f5g5 h8h5 g5h5 g8h6 b1b6 f8g7 b6h6 g7h6 h5h6
Game10 ==
  <<<<41, 43>>, <<46, 44>>, <<32, 41>>, <<14, 13>>, <<57, 58>>, <<6, 5>>, <<48, 42>>, <<15, 21>>, <<1, 3>>, <<21, 11>>, <<25, 26>>, <<11, 17>>, <<24, 17>>, <<62, 60>>, <<17, 22>>, <<31, 22>>, <<3, 4>>, <<22, 16>>, <<4, 13>>, <<16, 40>>, <<56, 40>>, <<30, 28>>, <<0, 5>>, <<7, 5>>, <<9, 11>>, <<5, 13>>, <<11, 12>>, <<13, 12>>, <<33, 35>>, <<28, 35>>, <<26, 35>>, <<44, 35>>, <<49, 51>>, <<60, 51>>, <<58, 51>>, <<35, 42>>, <<41, 42>>, <<12, 8>>, <<40, 8>>, <<23, 51>>, <<42, 51>>, <<38, 37>>, <<43, 44>>, <<37, 44>>, <<51, 44>>, <<54, 52>>, <<44, 52>>, <<63, 60>>, <<52, 60>>, <<55, 61>>, <<8, 13>>, <<47, 54>>, <<13, 61>>, <<54, 61>>, <<60, 61>>>>

\* the rook of h1 is taken at home and the rook of a1 takes its place:
\*   1. h4 Nf6 2. a4 Ne4 3. Ra3 Nxf2 4. Rah3 Nxh1 5. Rxh1 e5 6. Nf3 Bc5 7. e3 d6 8. Be2 a6 9. O-O Bxe3+
Game11 ==
  <<<<57, 59>>, <<55, 45>>, <<1, 3>>, <<45, 35>>, <<0, 2>>, <<35, 41>>, <<2, 58>>, <<41, 56>>, <<58, 56>>, <<38, 36>>, <<48, 42>>, <<47, 20>>, <<33, 34>>, <<30, 29>>, <<40, 33>>, <<6, 5>>, <<32, 48>>, <<20, 34>>>>

Games == {Game1, Game2, Game3, Game4, Game5, Game6, Game7, Game8, Game9, Game10, Game11}


IsPrefix(p, l) == Len(p) <= Len(l) /\ SubSeq(l, 1, Len(p)) = p

\* the history h is followed: it is the start of a game, or runs at most MaxFree
\* plies past the end of one
Followed(h) ==
  \E g \in Games :
     \/ IsPrefix(h, g)
     \/ IsPrefix(g, h) /\ Len(h) <= Len(g) + MaxFree

\* len(board.piecemap)
NumPieces(b) == Cardinality({s \in Squares : b.piecemap[s] # Empty})

\* the branch of line 452 left out: two kings play on
game_over_by_moves(b, mvs) ==
  IF mvs = {}
  THEN IF is_positional_check(b, who(b))
       THEN (IF who(b) = "w" THEN "black wins" ELSE "white wins")
       ELSE (IF who(b) = "w" THEN "draw -- white has no legal moves"
             ELSE "draw -- black has no legal moves")
  ELSE ""

\* lines 445-454: what the loop prints before it breaks, "" when it goes on
game_over(b, mvs) ==
  IF mvs = {}
  THEN IF is_positional_check(b, who(b))
       THEN (IF who(b) = "w" THEN "black wins" ELSE "white wins")
       ELSE (IF who(b) = "w" THEN "draw -- white has no legal moves"
             ELSE "draw -- black has no legal moves")
  ELSE IF NumPieces(b) = 2 THEN "draw -- 2 kings"
  ELSE ""

Init ==
  /\ board = default_board
  /\ moves = legal_moves(default_board)
  /\ stack = <<>>
  /\ count = 0
  /\ depth = 0
  /\ over = ""
  /\ heap = <<>>
  /\ held = <<>>
  /\ seen = <<>>

\* one turn of the loop of interactive_game (lines 438-461): the game is not
\* over, the side to move picks one of its legal moves, the move is applied
\* and the legal moves of the new board are listed
Play ==
  /\ over = ""
  /\ game_over(board, moves) = ""
  /\ \E move \in moves :
       /\ Followed(Append(board.history, move))
       /\ board' = make_move(board, move, FALSE)
       /\ moves' = legal_moves(board')
  /\ UNCHANGED <<stack, count, depth, over, heap, held, seen>>

\* the last turn of the loop: the game is over, the loop prints why and breaks
GameOver ==
  /\ over = ""
  /\ game_over(board, moves) # ""
  /\ over' = game_over(board, moves)
  /\ UNCHANGED <<board, moves, stack, count, depth, heap, held, seen>>

Next == Play \/ GameOver

Spec == Init /\ [][Next]_vars

-----------------------------------------------------------------------------
(* The generator deeplook(board, depth), lines 474-480                     *)

\* perft of the standard initial position at depths 1, 2, 3, 4
PerftCounts == <<20, 400, 8902, 197281>>

\* the same counts divided by the first move: how many of the boards of each
\* depth lie behind each move of the initial position
DivideCounts ==
  << <<<<1, 2>>,   <<1, 20, 380, 8457>>>>,  <<<<1, 3>>,   <<1, 20, 420, 9329>>>>,
     <<<<8, 2>>,   <<1, 20, 400, 8885>>>>,  <<<<8, 18>>,  <<1, 20, 440, 9755>>>>,
     <<<<9, 10>>,  <<1, 20, 420, 9345>>>>,  <<<<9, 11>>,  <<1, 20, 421, 9332>>>>,
     <<<<17, 18>>, <<1, 20, 420, 9272>>>>,  <<<<17, 19>>, <<1, 20, 441, 9744>>>>,
     <<<<25, 26>>, <<1, 20, 539, 11959>>>>, <<<<25, 27>>, <<1, 20, 560, 12435>>>>,
     <<<<33, 34>>, <<1, 20, 599, 13134>>>>, <<<<33, 35>>, <<1, 20, 600, 13160>>>>,
     <<<<41, 42>>, <<1, 20, 380, 8457>>>>,  <<<<41, 43>>, <<1, 20, 401, 8929>>>>,
     <<<<48, 42>>, <<1, 20, 440, 9748>>>>,  <<<<48, 58>>, <<1, 20, 400, 8881>>>>,
     <<<<49, 50>>, <<1, 20, 420, 9345>>>>,  <<<<49, 51>>, <<1, 20, 421, 9328>>>>,
     <<<<57, 58>>, <<1, 20, 380, 8457>>>>,  <<<<57, 59>>, <<1, 20, 420, 9329>>>> >>

RECURSIVE DivideSum(_, _)
DivideSum(d, n) ==
  IF n = 0 THEN 0 ELSE DivideCounts[n][2][d] + DivideSum(d, n - 1)

\* a frame of deeplook: its board, the legal moves its loop has yet to take
\* and its depth
Frame(b, d) == [board |-> b, todo |-> legal_moves(b), depth |-> d]

\* The generator runs from the frames st until its innermost call, the one of
\* depth 1, has yielded the board of every move it had left: out is the set of
\* these yields, each a move with the board make_move returned for it, and
\* stop says that the generator ended instead. A frame with depth > 1 takes
\* its next move and calls deeplook on the new board; a frame with no move
\* left returns to its caller.
RECURSIVE Resume(_)
Resume(st) ==
  IF st = <<>> THEN [stack |-> <<>>, out |-> {}, stop |-> TRUE]
  ELSE LET n == Len(st)
           top == st[n]
       IN IF top.todo = {} THEN Resume(SubSeq(st, 1, n - 1))
          ELSE IF top.depth > 1
               THEN LET move == CHOOSE m \in top.todo : TRUE
                        boar2 == make_move(top.board, move, FALSE)
                        rest == [st EXCEPT ![n].todo = top.todo \ {move}]
                    IN Resume(Append(rest, Frame(boar2, top.depth - 1)))
          ELSE [stack |-> [st EXCEPT ![n].todo = {}],
                out |-> {<<move, make_move(top.board, move, FALSE)>> : move \in top.todo},
                stop |-> FALSE]

\* the moves the loop of the outermost call, deeplook(default_board, depth),
\* runs over
FirstMoves == legal_moves(default_board)

\* The outermost call takes the moves of FirstMoves one after the other, and
\* nothing but the yielded boards passes from one turn of its loop to the
\* next. Each turn is therefore followed on its own: the turn for move makes
\* boar2, yields it when depth is 1 and otherwise yields what
\* deeplook(boar2, depth - 1) yields.
InitPerft ==
  /\ moves = {}
  /\ \E d \in 1 .. Len(PerftCounts), move \in FirstMoves :
       \E boar2 \in {make_move(default_board, move, FALSE)} :
         /\ depth = d
         /\ board = boar2
         /\ count = (IF d = 1 THEN 1 ELSE 0)
         /\ stack = (IF d = 1 THEN <<>> ELSE <<Frame(boar2, d - 1)>>)
  /\ over = ""
  /\ heap = <<>>
  /\ held = <<>>
  /\ seen = <<>>

\* the caller counts the boards the generator yields up to the return of its
\* innermost call, or finds the generator exhausted
CountBoards ==
  /\ stack # <<>>
  /\ \E r \in {Resume(stack)} :
       /\ stack' = r.stack
       /\ count' = count + Cardinality(r.out)
  /\ UNCHANGED <<board, moves, depth, over, heap, held, seen>>

NextPerft == CountBoards

SpecPerft == InitPerft /\ [][NextPerft]_vars

\* C4: deeplook from the standard initial position yields 20, 400, 8,902 and
\* 197,281 boards at depths 1, 2, 3 and 4. The turns of the outermost loop are
\* the moves listed in DivideCounts and no others, the turn of each move
\* yields, once exhausted, the number of boards DivideCounts gives for it (and
\* never more on the way), and these numbers add up to the four totals.
PerftLeafCounts ==
  /\ FirstMoves = {DivideCounts[n][1] : n \in 1 .. Len(DivideCounts)}
  /\ Cardinality(FirstMoves) = Len(DivideCounts)
  /\ \A d \in 1 .. Len(PerftCounts) :
       DivideSum(d, Len(DivideCounts)) = PerftCounts[d]
  /\ depth > 0 =>
       \A n \in 1 .. Len(DivideCounts) :
         DivideCounts[n][1] = board.history[1] =>
           /\ count <= DivideCounts[n][2][depth]
           /\ stack = <<>> => count = DivideCounts[n][2][depth]

-----------------------------------------------------------------------------
(* Boards as objects: _dupe, make_move and legal_moves on a heap           *)

\* A Board object is the record of what its attributes refer to: piecemap,
\* castle_x and history are the addresses of a dict, a set and a list of the
\* heap, enpassant is None or a tuple, which cannot be mutated.

\* the Board the object x stands for on the heap h
value(h, x) ==
  [piecemap |-> h[x.piecemap],
   enpassant |-> x.enpassant,
   castle_x |-> h[x.castle_x],
   history |-> h[x.history]]

\* the addresses the object x refers to
addrs(x) == {x.piecemap, x.castle_x, x.history}

\* a new object of value v: it takes the lowest address not in use
alloc(h, v) ==
  LET a == CHOOSE c \in 1 .. Cardinality(DOMAIN h) + 1 :
             c \notin DOMAIN h /\ \A d \in 1 .. c - 1 : d \in DOMAIN h
  IN [heap |-> h @@ (a :> v), addr |-> a]

\* the heap once the objects nothing refers to are freed
collect(h, live) == [a \in DOMAIN h \cap live |-> h[a]]

\* _dupe with the set castle_x assigned, not copied
dupe_shared(h, self) ==
  LET p == alloc(h, h[self.piecemap])
      l == alloc(p.heap, h[self.history])
  IN [heap |-> l.heap,
      x |-> [piecemap |-> p.addr, enpassant |-> self.enpassant,
             castle_x |-> self.castle_x, history |-> l.addr]]

\* Board._dupe: a new dict, a new set and a new list with the same content
dupe(h, self) ==
  LET p == alloc(h, h[self.piecemap])
      c == alloc(p.heap, h[self.castle_x])
      l == alloc(c.heap, h[self.history])
  IN [heap |-> l.heap,
      x |-> [piecemap |-> p.addr, enpassant |-> self.enpassant,
             castle_x |-> c.addr, history |-> l.addr]]

\* Board.make_move on the heap: every assignment of lines 269-301 is made
\* through board, the object _dupe returned; the result is the heap and board
make_move_obj(h, self, fromto, ignore_promote) ==
  LET d == dupe(h, self)
      from == fromto[1]
      r == make_move(value(d.heap, d.x), fromto, ignore_promote)
  IN IF Raises(r) THEN [heap |-> d.heap, raised |-> r.raised]
     ELSE [heap |-> [d.heap EXCEPT
                       ![d.x.piecemap] = r.piecemap,
                       ![d.x.castle_x] =
                          IF from \in CASTLE_SPOTS /\ from \notin h[self.castle_x]
                          THEN @ \cup {from} ELSE @,
                       ![d.x.history] = Append(@, fromto)],
           x |-> [d.x EXCEPT !.enpassant = r.enpassant]]

\* one turn of the loop of legal_moves on the heap: the candidate is tried on
\* a Board of its own, chboard, which nothing refers to after the turn
try_candidate(h, self, todo) ==
  LET candidate == CHOOSE c \in todo : TRUE
      now == value(h, self)
      ch == make_move_obj(h, self, candidate, TRUE)
      chboard == value(ch.heap, ch.x)
  IN [heap |-> collect(ch.heap, DOMAIN h),
      kept |-> IF ~ is_positional_check(chboard, who(now))
               THEN Expand(now, candidate) ELSE {},
      todo |-> todo \ {candidate}]

\* Board.legal_moves on the heap, for the candidates todo: the heap it leaves
\* and the moves it yields, acc being those yielded so far
RECURSIVE legal_moves_obj(_, _, _, _)
legal_moves_obj(h, self, todo, acc) ==
  IF todo = {} THEN [heap |-> h, moves |-> acc]
  ELSE CHOOSE r \in {legal_moves_obj(t.heap, self, t.todo, acc \cup t.kept) :
                       t \in {try_candidate(h, self, todo)}} : TRUE

InitObjects ==
  /\ board = default_board
  /\ moves = {}
  /\ stack = <<>>
  /\ count = 0
  /\ depth = 0
  /\ over = ""
  /\ heap = <<default_board.piecemap, default_board.castle_x, default_board.history>>
  /\ held = <<[piecemap |-> 1, enpassant |-> None, castle_x |-> 2, history |-> 3]>>
  /\ seen = <<default_board>>

\* A caller looks ahead from one of the Boards it holds: it lists the legal
\* moves of the Board and applies one of them; it then holds that Board and
\* the Board make_move returned.
Lookahead ==
  /\ \E i \in 1 .. Len(held) :
       \E l \in {legal_moves_obj(heap, held[i],
                                  positional_moves(value(heap, held[i]), "", NoSquare), {})} :
          /\ moves' = l.moves
          /\ \E move \in l.moves :
               /\ Followed(Append(value(l.heap, held[i]).history, move))
               /\ \E r \in {make_move_obj(l.heap, held[i], move, FALSE)} :
                    /\ held' = <<held[i], r.x>>
                    /\ heap' = collect(r.heap, addrs(held[i]) \cup addrs(r.x))
                    /\ seen' = <<seen[i], value(r.heap, r.x)>>
  /\ UNCHANGED <<board, stack, count, depth, over>>

NextObjects == Lookahead

SpecObjects == InitObjects /\ [][NextObjects]_vars

-----------------------------------------------------------------------------
(* Notation (Board.interpret)                                              *)

\* A text is the sequence of its characters; the name of the square s is the
\* text of its file letter and its rank digit.
i2f == <<"a", "b", "c", "d", "e", "f", "g", "h">>
i2r == <<"1", "2", "3", "4", "5", "6", "7", "8">>

\* Delta.f2i and Delta.r2i
f2i(c) == CHOOSE i \in 0 .. 7 : i2f[i + 1] = c
r2i(c) == CHOOSE i \in 0 .. 7 : i2r[i + 1] = c

\* the text of the square s, and the square of a text of two characters
spot_text(s) == <<i2f[File(s) + 1], i2r[Rank(s) + 1]>>
spot_of(t) == Sq(f2i(t[1]), r2i(t[2]))

\* the letters kept as they are written
keep_case(c) == c

\* str.lower on the letters of pieces
lower(c) ==
  CASE c = "R" -> "r" [] c = "N" -> "n" [] c = "B" -> "b"
    [] c = "Q" -> "q" [] c = "K" -> "k" [] OTHER -> c

\* the hint not looked at
occurs_anyway(t, u) == TRUE

\* spot1 in m[0]: the text t occurs in the text u
occurs_in(t, u) ==
  \E i \in 1 .. Len(u) - Len(t) + 1 : SubSeq(u, i, i + Len(t) - 1) = t

\* re.match of line 316 on the text pgn. The pattern is
\*   ([RNBQK]|)([a-h]?[0-8]?)(x|)([a-h][1-8])(=[QRNB]|)([+!?]*)
\* Its first four choices (a piece letter or none, a file or none, a rank or
\* none, an x or none) are tried in the order of backtracking: each choice
\* takes its character first, and the later choice is undone first. try k
\* numbers the sixteen combinations in that order. The match is the groups of
\* the first combination after which ([a-h][1-8]) matches, or None.
re_match(pgn) ==
  LET at(i) == IF 1 <= i /\ i <= Len(pgn) THEN pgn[i] ELSE ""
      p(k) == 1 - (k \div 8)
      f(k) == 1 - ((k \div 4) % 2)
      r(k) == 1 - ((k \div 2) % 2)
      x(k) == 1 - (k % 2)
      pos(k) == 1 + p(k) + f(k) + r(k) + x(k)
      ok(k) ==
        /\ p(k) = 1 => at(1) \in {"R", "N", "B", "Q", "K"}
        /\ f(k) = 1 => at(1 + p(k)) \in {"a", "b", "c", "d", "e", "f", "g", "h"}
        /\ r(k) = 1 => at(1 + p(k) + f(k)) \in {"0", "1", "2", "3", "4", "5", "6", "7", "8"}
        /\ x(k) = 1 => at(1 + p(k) + f(k) + r(k)) = "x"
        /\ at(pos(k)) \in {"a", "b", "c", "d", "e", "f", "g", "h"}
        /\ at(pos(k) + 1) \in {"1", "2", "3", "4", "5", "6", "7", "8"}
      tries == {k \in 0 .. 15 : ok(k)}
  IN IF tries = {} THEN None
     ELSE LET k == CHOOSE j \in tries : \A i \in tries : j <= i
              q == pos(k)
          IN <<SubSeq(pgn, 1, p(k)),
               SubSeq(pgn, 1 + p(k), p(k) + f(k) + r(k)),
               SubSeq(pgn, 1 + p(k) + f(k) + r(k), q - 1),
               SubSeq(pgn, q, q + 1),
               IF at(q + 2) = "=" /\ at(q + 3) \in {"Q", "R", "N", "B"}
               THEN SubSeq(pgn, q + 2, q + 3) ELSE <<>>>>

\* what interpret returns when the code raises InterpretationError: a move is
\* a tuple of two or three, this is a tuple of one
InterpretationError == <<"InterpretationError">>
Fails(result) == Len(result) = 1

\* lines 306-355 of Board.interpret, moves being list(self.legal_moves())
interpret_in(b, mvs, w, pgn) ==
  LET backrank == IF w = "w" THEN 0 ELSE 7
      m == re_match(pgn)
      ptype == IF m[1] = <<>> THEN "p" ELSE lower(m[1][1])
      spot1 == m[2]
      spot2 == spot_of(m[4])
      target == IF m[5] # <<>> THEN <<spot2, lower(m[5][2])>> ELSE <<spot2>>
      potential == {spot \in positions(b, w) : b.piecemap[spot][2] = ptype}
      matches == {mv \in {<<sp1>> \o target : sp1 \in potential} :
                    mv \in mvs /\ (spot1 # <<>> => occurs_in(spot1, spot_text(mv[1])))}
      valid(result) == IF result \in mvs THEN result ELSE InterpretationError
  IN IF pgn = <<"O", "-", "O">> THEN valid(<<Sq(4, backrank), Sq(6, backrank)>>)
     ELSE IF pgn = <<"O", "-", "O", "-", "O">> THEN valid(<<Sq(4, backrank), Sq(2, backrank)>>)
     ELSE IF m = None THEN InterpretationError
     ELSE IF Cardinality(matches) = 1 THEN valid(CHOOSE mv \in matches : TRUE)
     ELSE InterpretationError

\* Board.interpret
interpret(b, w, pgn) == interpret_in(b, legal_moves(b), w, pgn)

-----------------------------------------------------------------------------
(* The calls between the castling branch and is_attacked                   *)

\* how deep the nesting of calls is followed
MaxNest == 3

\* lines 241-246 and 254-259: the squares the castling branch of the king on
\* spot passes to is_attacked, on one side: the first three of the lineup,
\* once the rook and the empty squares have been found
CastleCallsSide(b, spot, d1, n) ==
  LET lineup == [i \in 1 .. n |-> from_(Mul(d1, i - 1), spot)] IN
  IF /\ b.piecemap[lineup[n]][2] = "r"
     /\ lineup[n] \notin b.castle_x
     /\ \A i \in 2 .. n - 1 : b.piecemap[lineup[i]] = Empty
  THEN {lineup[i] : i \in 1 .. 3}
  ELSE {}

\* the squares _positional_moves(w, attacking) passes to is_attacked
CastleCalls(b, attacking, w) ==
  UNION {CastleCallsSide(b, spot, Delta(1, 0), 4) \cup CastleCallsSide(b, spot, Delta(0 - 1, 0), 5) :
           spot \in {s \in positions(b, w) : CastleGuard(b, s, b.piecemap[s], w, attacking)}}

\* how many castling branches are entered one inside the other while
\* is_attacked(attacking, w) is evaluated, counted up to fuel
RECURSIVE CastleNesting(_, _, _, _)
CastleNesting(b, attacking, w, fuel) ==
  IF fuel = 0 THEN 0
  ELSE IF \A s \in positions(b, w) : ~ CastleGuard(b, s, b.piecemap[s], w, attacking) THEN 0
  ELSE LET inner == {CastleNesting(b, spot, other(w), fuel - 1) : spot \in CastleCalls(b, attacking, w)}
       IN 1 + (IF inner = {} THEN 0 ELSE CHOOSE d \in inner : \A e \in inner : e <= d)

-----------------------------------------------------------------------------
(* The vocabulary of the properties                                        *)

\* The squares the piece on spot attacks under the rules of chess: a pawn its
\* two forward diagonals, a knight or a king its one-step offsets, a rook,
\* bishop or queen each ray up to and including the first non-empty square.
RECURSIVE Sight(_, _, _, _)
Sight(b, spot, dd, i) ==
  LET spot2 == from_(Mul(dd, i), spot) IN
  IF spot2 = NoSquare THEN {}
  ELSE IF b.piecemap[spot2] = Empty THEN {spot2} \cup Sight(b, spot, dd, i + 1)
  ELSE {spot2}

Attacks(b, spot) ==
  LET piece == b.piecemap[spot]
      dr == IF piece[1] = "b" THEN 0 - 1 ELSE 1
      ds == dirs(piece[2])
  IN IF piece[2] = "p"
     THEN {from_(Delta(0 - 1, dr), spot), from_(Delta(1, dr), spot)} \ {NoSquare}
     ELSE IF piece[2] \in {"n", "k"}
     THEN {from_(ds[j], spot) : j \in 1 .. Len(ds)} \ {NoSquare}
     ELSE UNION {Sight(b, spot, ds[j], 1) : j \in 1 .. Len(ds)}

\* the squares the side c attacks
AttackedBy(b, c) == UNION {Attacks(b, s) : s \in positions(b, c)}

\* the square of the king of side c
KingSpot(b, c) == CHOOSE s \in positions(b, c) : b.piecemap[s][2] = "k"

\* the pseudo-legal moves of the side to move
Candidates(b) == positional_moves(b, "", NoSquare)

\* a king's move of two files
IsCastling(b, m) ==
  b.piecemap[m[1]][2] = "k" /\ File(m[2]) - File(m[1]) \in {2, 0 - 2}

\* the square the castling king crosses
Crossed(m) == Sq((File(m[1]) + File(m[2])) \div 2, Rank(m[1]))

\* the corner the castling rook leaves
Corner(m) == Sq(IF File(m[2]) > File(m[1]) THEN 7 ELSE 0, Rank(m[1]))

\* the rank a pawn of side c promotes on, and the rank its pawns start on
FarRank(c) == IF c = "w" THEN 7 ELSE 0
HomeRank(c) == IF c = "w" THEN 1 ELSE 6

\* a pawn of the side to move reaching its far rank
IsPromotion(b, m) ==
  b.piecemap[m[1]] = <<who(b), "p">> /\ Rank(m[2]) = FarRank(who(b))

\* a pawn moving diagonally onto an empty square
IsEnPassantCapture(b, m) ==
  /\ b.piecemap[m[1]][2] = "p"
  /\ File(m[2]) # File(m[1])
  /\ b.piecemap[m[2]] = Empty

-----------------------------------------------------------------------------
(* The properties                                                          *)

\* C1: every legal move leaves the mover's own king on a square that no piece
\* of the opponent attacks
CheckSafety ==
  \A m \in moves :
     LET chboard == make_move(board, m, FALSE)
     IN KingSpot(chboard, who(board)) \notin AttackedBy(chboard, other(who(board)))

\* the filter has discarded a candidate and kept another
CheckSafetyWitness ==
  /\ moves # {}
  /\ \E c \in Candidates(board) : ~ Survives(board, c)

\* C2: the generator yields a castling move only if the king's square, the
\* square it crosses and the square it lands on are not attacked by the
\* opponent, a pawn attacking its two forward diagonals also when empty
NoCastlingThroughCheck ==
  \A m \in Candidates(board) :
     IsCastling(board, m) =>
       {m[1], Crossed(m), m[2]} \cap AttackedBy(board, other(who(board))) = {}

\* C3: is_attacked(s, c) is true exactly when a piece of c attacks s
AttackOracleExact ==
  \A s \in Squares : \A c \in {"w", "b"} :
     is_attacked(board, s, c) <=> s \in AttackedBy(board, c)

\* for the deepest call, a turn of the outermost loop has run to its end and
\* has yielded boards
PerftWitness ==
  depth = Len(PerftCounts) /\ stack = <<>> /\ count > 0

\* C5: make_move adds the origin square to castle_x when it is one of a1, e1,
\* h1, a8, e8, h8, and leaves castle_x as it is otherwise, so that castle_x
\* never loses a square
CastleXGrows ==
  \A m \in moves :
     make_move(board, m, FALSE).castle_x =
       IF m[1] \in CASTLE_SPOTS THEN board.castle_x \cup {m[1]} ELSE board.castle_x

\* a move leaves a castling square while castle_x already holds another
CastleXWitness ==
  /\ board.castle_x # {}
  /\ \E m \in moves : m[1] \in CASTLE_SPOTS \ board.castle_x

\* C6: a castling move is legal only if the king is on its home square, the
\* king's and the rook's home squares are not in castle_x, the rook's home
\* square holds a rook and the squares between them are empty
CastlingNeedsRights ==
  \A m \in moves :
     IsCastling(board, m) =>
       /\ m[1] = (IF who(board) = "w" THEN e1 ELSE e8)
       /\ m[1] \notin board.castle_x
       /\ Corner(m) \notin board.castle_x
       /\ board.piecemap[Corner(m)][2] = "r"
       /\ \A s \in Squares :
            (/\ Rank(s) = Rank(m[1])
             /\ \/ File(m[1]) < File(s) /\ File(s) < File(Corner(m))
                \/ File(Corner(m)) < File(s) /\ File(s) < File(m[1]))
            => board.piecemap[s] = Empty

\* a castling move is legal
CastlingWitness == \E m \in moves : IsCastling(board, m)

\* the move that produced the board was a pawn's advance of two squares from
\* its home rank: the mover is the side that is not to move now
AfterDoublePush(b) ==
  /\ b.history # <<>>
  /\ LET m == b.history[Len(b.history)]
         mover == other(who(b))
     IN /\ b.piecemap[m[2]] = <<mover, "p">>
        /\ File(m[2]) = File(m[1])
        /\ Rank(m[1]) = HomeRank(mover)
        /\ Rank(m[2]) = (IF mover = "w" THEN 3 ELSE 4)

\* C7: enpassant is set exactly after a pawn's advance of two squares from
\* its home rank; it is then the pair of the square the pawn skipped, which
\* is empty, and the square of the pawn; and a pawn captures onto an empty
\* square only onto the first square of the pair
EnPassantWindow ==
  /\ board.enpassant # None <=> AfterDoublePush(board)
  /\ board.enpassant # None =>
       LET m == board.history[Len(board.history)] IN
       /\ board.enpassant = <<Sq(File(m[1]), (Rank(m[1]) + Rank(m[2])) \div 2), m[2]>>
       /\ board.piecemap[board.enpassant[1]] = Empty
       /\ board.piecemap[board.enpassant[2]] = <<other(who(board)), "p">>
  /\ \A m \in moves :
       IsEnPassantCapture(board, m) =>
         board.enpassant # None /\ m[2] = board.enpassant[1]

\* a capture en passant is legal
EnPassantWitness ==
  /\ board.enpassant # None
  /\ \E m \in moves : IsEnPassantCapture(board, m)

\* C8: of the candidates that do not leave the mover in check, a pawn's move
\* to its far rank is in legal_moves with each of the four promotion kinds
\* and not without one, every other is in legal_moves as it is, and
\* legal_moves holds nothing else
PromotionComplete ==
  LET kept == {c \in Candidates(board) :
                 LET chboard == make_move(board, c, TRUE)
                 IN KingSpot(chboard, who(board)) \notin
                      AttackedBy(chboard, other(who(board)))}
  IN /\ \A c \in kept :
          {m \in moves : m[1] = c[1] /\ m[2] = c[2]} =
            IF IsPromotion(board, c)
            THEN {<<c[1], c[2], k>> : k \in {"q", "r", "b", "n"}}
            ELSE {c}
     /\ \A m \in moves : <<m[1], m[2]>> \in kept

\* a pawn's move to its far rank is legal
PromotionWitness == \E m \in moves : IsPromotion(board, m) /\ Len(m) = 3

\* C9: make_move returns a board for every candidate of the side to move,
\* given with or without a promotion kind
MakeMoveTotal ==
  \A c \in Candidates(board) :
     /\ ~ Raises(make_move(board, c, FALSE))
     /\ \A k \in {"q", "r", "b", "n"} : ~ Raises(make_move(board, c \o <<k>>, FALSE))

\* what the square s holds after the legal move m
PlacedAfter(b, m, s) ==
  IF s = m[1] THEN Empty
  ELSE IF s = m[2]
       THEN (IF IsPromotion(b, m) THEN <<who(b), m[3]>> ELSE b.piecemap[m[1]])
  ELSE IF IsCastling(b, m) /\ s = Corner(m) THEN Empty
  ELSE IF IsCastling(b, m) /\ s = Crossed(m) THEN <<who(b), "r">>
  ELSE IF IsEnPassantCapture(b, m) /\ s = Sq(File(m[2]), Rank(m[1])) THEN Empty
  ELSE b.piecemap[s]

\* C10: a legal move empties its origin, puts the moved piece (promoted, for a
\* pawn on its far rank) on its destination, takes the castling rook from its
\* corner to the square the king crossed, empties the square of the pawn
\* taken en passant, and changes nothing else
PlacementEffect ==
  \A m \in moves :
     \A s \in Squares :
        make_move(board, m, FALSE).piecemap[s] = PlacedAfter(board, m, s)

\* a castling move is legal and has taken the rook to the crossed square
PlacementWitness ==
  \E m \in moves :
     /\ IsCastling(board, m)
     /\ make_move(board, m, FALSE).piecemap[Crossed(m)] = <<who(board), "r">>

\* C11: make_move and the enumeration of legal_moves leave the Board they are
\* called on as it was, and the Board make_move returns shares no dict, set
\* or list with it: each held Board still has the value it had when the caller
\* received it, whatever was done with the other since
InputNeverMutated ==
  /\ \A i \in 1 .. Len(held) : value(heap, held[i]) = seen[i]
  /\ \A i, j \in 1 .. Len(held) : i # j => addrs(held[i]) \cap addrs(held[j]) = {}

\* a move has been made from a Board whose own move had recorded a castling
\* square and a history
InputNeverMutatedWitness ==
  /\ Len(held) = 2
  /\ seen[1].castle_x # {}
  /\ seen[2].castle_x # seen[1].castle_x
  /\ moves # {}

\* str.upper on the letters of pieces
upper(c) ==
  CASE c = "r" -> "R" [] c = "n" -> "N" [] c = "b" -> "B"
    [] c = "q" -> "Q" [] c = "k" -> "K" [] OTHER -> c

\* the text of a ply: the piece of kind k (no letter for a pawn), with the
\* origin hint, goes (x: capturing) to dest, promoting to promo ("" for none),
\* with a comment
ply_text(k, hint, x, dest, promo, comment) ==
  (IF k = "p" THEN <<>> ELSE <<upper(k)>>) \o hint \o x \o spot_text(dest)
    \o (IF promo = "" THEN <<>> ELSE <<"=", upper(promo)>>) \o comment

\* the plies tried on a board with the legal moves mvs: for each legal move
\* its own description with each hint and promotion, with each decoration,
\* and with another piece; and a pawn, a knight and a king to each square
PlyParts(b, mvs) ==
  LET own(mv) == b.piecemap[mv[1]][2]
      promo(mv) == IF Len(mv) = 3 THEN mv[3] ELSE ""
      around(mv) ==
        {<<own(mv), hint, <<>>, mv[2], pr, <<>>>> :
           hint \in {<<>>, <<i2f[File(mv[1]) + 1]>>, <<i2r[Rank(mv[1]) + 1]>>,
                     spot_text(mv[1]), <<"a">>, <<"0">>},
           pr \in {"", "q", promo(mv)}}
        \cup {<<own(mv), <<>>, deco[1], mv[2], promo(mv), deco[2]>> :
                deco \in {<<<<"x">>, <<>>>>, <<<<>>, <<"+">>>>, <<<<"x">>, <<"!", "?">>>>}}
        \cup {<<k, hint, <<>>, mv[2], "", <<>>>> :
                k \in {"p", "q"}, hint \in {<<>>, spot_text(mv[1])}}
  IN UNION {around(mv) : mv \in mvs}
     \cup {<<k, <<>>, <<>>, dest, "", <<>>>> : k \in {"p", "n", "k"}, dest \in Squares}

full_text(b, mv) ==
  ply_text(b.piecemap[mv[1]][2], spot_text(mv[1]), <<>>, mv[2],
           IF Len(mv) = 3 THEN mv[3] ELSE "", <<>>)

\* C13: for every legal move, interpret returns that move for the text of its
\* piece letter, origin, destination and promotion
NotationRoundTrip ==
  \A mv \in moves : interpret_in(board, moves, who(board), full_text(board, mv)) = mv

\* an under-promotion is legal and its text is read back as that move
NotationRoundTripWitness ==
  \E mv \in moves :
     /\ Len(mv) = 3 /\ mv[3] = "n"
     /\ interpret_in(board, moves, who(board), full_text(board, mv)) = mv

\* C14: make_move appends the move to the history, so that the result has one
\* ply more and the other side to move; white is to move in the initial
\* position, and the side to move is the one that did not make the last move
\* and the one whose pieces the legal moves move
SideAlternation ==
  /\ board.history = <<>> => who(board) = "w"
  /\ board.history # <<>> =>
       board.piecemap[board.history[Len(board.history)][2]][1] = other(who(board))
  /\ \A m \in moves :
       LET after == make_move(board, m, FALSE) IN
       /\ board.piecemap[m[1]][1] = who(board)
       /\ after.history = board.history \o <<m>>
       /\ Len(after.history) = Len(board.history) + 1
       /\ who(after) = other(who(board))
       /\ who(after) = "w" <=> Len(after.history) % 2 = 0

\* black is to move for the second time and has a legal move
SideAlternationWitness ==
  /\ Len(board.history) = 3
  /\ who(board) = "b"
  /\ moves # {}

\* C15: when the side to move has no legal move the loop stops and reports a
\* win of the other side if its king is attacked and a draw if it is not; when
\* only the two kings remain it stops and reports a draw, whoever is to move;
\* otherwise it goes on
TerminalReports ==
  [][LET side == who(board)
         attacked == KingSpot(board, side) \in AttackedBy(board, other(side))
         bare == \A s \in Squares : board.piecemap[s] = Empty \/ board.piecemap[s][2] = "k"
     IN /\ (moves = {} /\ attacked) =>
             /\ board' = board
             /\ over' = (IF side = "w" THEN "black wins" ELSE "white wins")
        /\ (moves = {} /\ ~ attacked) =>
             /\ board' = board
             /\ over' \in {"draw -- white has no legal moves", "draw -- black has no legal moves"}
        /\ bare => board' = board /\ over' = "draw -- 2 kings"
        /\ (moves # {} /\ ~ bare) => over' = ""]_vars

\* the loop has stopped on two kings
TerminalWitness ==
  /\ over = "draw -- 2 kings"
  /\ moves # {}
  /\ NumPieces(board) = 2

\* C16: a castling move is legal only if no earlier move of the game started
\* from the king's home square (the king has not moved) and none started from
\* or ended on the rook's corner (the rook on it is the original one: it has
\* not moved, and it was not taken and replaced)
CastlingRightsLost ==
  \A m \in moves :
     IsCastling(board, m) =>
       \A i \in 1 .. Len(board.history) :
          /\ board.history[i][1] # m[1]
          /\ board.history[i][1] # Corner(m)
          /\ board.history[i][2] # Corner(m)

\* C17: while is_attacked is evaluated, for any square and side, the castling
\* branch is entered at most once: the calls it makes to is_attacked do not
\* enter it again
AttackTerminates ==
  \A s \in Squares : \A c \in {"w", "b"} :
     CastleNesting(board, s, c, MaxNest) <= 1

\* is_attacked enters the castling branch, which calls is_attacked in turn,
\* while the other king has not moved either
AttackTerminatesWitness ==
  \E s \in Squares : \E c \in {"w", "b"} :
     /\ CastleCalls(board, s, c) # {}
     /\ CastleNesting(board, s, c, MaxNest) = 1
     /\ CastleGuard(board, KingSpot(board, other(c)), <<other(c), "k">>, other(c), NoSquare)

\* C18: from_ returns the square at the offset when its file and rank are on
\* the board and raises otherwise; the calls outside a try block (the lineups
\* of the castling branch, the en-passant test of make_move) never raise, no
\* candidate and no legal move has a square off the board, and make_move
\* returns a board for every legal move
OutOfBoundsLocal ==
  /\ \A spot \in Squares : \A df, dr \in {0 - 7, 0 - 2, 0 - 1, 0, 1, 2, 7} :
       LET f == File(spot) + df
           r == Rank(spot) + dr
           spot2 == from_(Delta(df, dr), spot)
       IN IF f \in 0 .. 7 /\ r \in 0 .. 7
          THEN spot2 \in Squares /\ File(spot2) = f /\ Rank(spot2) = r
          ELSE spot2 = NoSquare
  /\ \A c \in Candidates(board) : c[1] \in Squares /\ c[2] \in Squares
  /\ \A spot \in positions(board, who(board)) :
       CastleGuard(board, spot, board.piecemap[spot], who(board), NoSquare) =>
         /\ \A i \in 0 .. 3 : from_(Mul(Delta(1, 0), i), spot) \in Squares
         /\ \A i \in 0 .. 4 : from_(Mul(Delta(0 - 1, 0), i), spot) \in Squares
  /\ \A m \in moves :
       LET pawn_dr == IF who(board) = "b" THEN 0 - 1 ELSE 1 IN
       /\ m[1] \in Squares /\ m[2] \in Squares
       /\ ~ Raises(make_move(board, m, FALSE))
       /\ (board.piecemap[m[1]][2] = "p" /\ Len(m) = 2 /\ Rank(m[1]) = HomeRank(who(board))) =>
            /\ from_(Delta(0, pawn_dr * 2), m[1]) \in Squares
            /\ from_(Delta(0, pawn_dr), m[1]) \in Squares

\* a rook, bishop or queen on the edge of the board has a legal move along
\* the edge, and its ray stops at the corner
OutOfBoundsWitness ==
  /\ board.history # <<>>
  /\ \E m \in moves :
       /\ board.piecemap[m[1]][2] \in {"r", "b", "q"}
       /\ File(m[1]) \in {0, 7} /\ File(m[2]) = File(m[1])
       /\ from_(Delta(0, 1), m[2]) = NoSquare \/ from_(Delta(0, 0 - 1), m[2]) = NoSquare

\* C19: the board holds one white king and one black king, and no legal move
\* ends on the square of a king
OneKingEach ==
  /\ \A c \in {"w", "b"} :
       Cardinality({s \in Squares : board.piecemap[s] = <<c, "k">>}) = 1
  /\ \A m \in moves : board.piecemap[m[2]][2] # "k"

\* the king of the side to move is attacked, and the filter has discarded
\* candidates that leave it so
OneKingEachWitness ==
  /\ KingSpot(board, who(board)) \in AttackedBy(board, other(who(board)))
  /\ moves # {}
  /\ \E c \in Candidates(board) : \A m \in moves : <<m[1], m[2]>> # c

\* C20: no pawn stands on rank 1 or rank 8, and a legal move leaves the number
\* of pieces as it is or takes one piece off the board
PieceCount ==
  /\ \A s \in Squares : board.piecemap[s][2] = "p" => Rank(s) \notin {0, 7}
  /\ \A m \in moves :
       LET after == make_move(board, m, FALSE) IN
       /\ NumPieces(after) \in {NumPieces(board) - 1, NumPieces(board)}
       /\ NumPieces(after) = NumPieces(board) - 1 <=>
            (board.piecemap[m[2]] # Empty \/ IsEnPassantCapture(board, m))
       /\ \A s \in Squares : after.piecemap[s][2] = "p" => Rank(s) \notin {0, 7}

\* a promotion is legal, a capture or a castling move is legal, and pieces have been taken
PieceCountWitness ==
  /\ \E m \in moves : IsPromotion(board, m)
  /\ \E m \in moves : IsCastling(board, m) \/ board.piecemap[m[2]] # Empty
  /\ NumPieces(board) < 32

=============================================================================
